---- MODULE Spec2Model ----
(***************************************************************************)
(* Transport session of the realtime transcription front end:             *)
(* AudioTranscriptionService (src/lib/websocket.ts).                       *)
(*                                                                         *)
(* The service is a single-threaded object driven by caller calls          *)
(* (connect, disconnect, updateConfig, sendAudioData), by WebSocket events *)
(* (open, close, error, message) and by timers (connect timeout, settle    *)
(* delay, poll of waitForConnection, acknowledgement wait, reconnect       *)
(* backoff, backpressure wait).  Every handler runs to its next await      *)
(* without interleaving, so one action = one handler run (together with    *)
(* the promise continuations it triggers).  Time is abstracted: a pending  *)
(* timer may fire at any moment.                                           *)
(*                                                                         *)
(* Every connect() call that gets past its first guard creates a closure   *)
(* (socket, configSent, connectionTimeoutId, promise); closures live in    *)
(* the slots of sock.  A closure that can no longer act is dropped and     *)
(* its slot is used again.  The caller passes all callbacks, as            *)
(* src/components/AudioRecorder.tsx:105-123 does.                          *)
(***************************************************************************)
EXTENDS Integers, Sequences, FiniteSets, TLC

\* ---- bounds of the model ------------------------------------------------
MaxSockets == 2          \* connect() closures alive at the same time
MaxUpdates == 1          \* updateConfig() calls whose sendConfig is running
MaxAudioWait == 1        \* sendAudioData calls waiting on backpressure
MaxTimers == 2           \* timer handles available to attemptReconnect
MaxSilence == 52         \* largest value of the recorder's silence counter
MaxStaleCountdowns == 1  \* pending countdowns whose handle was overwritten

\* ---- program constants --------------------------------------------------
maxReconnectAttempts == 5
reconnectDelay == 1000
maxDelay == 30000
configRetries == 3
amplitudeFloor == 100
silenceFrames == 50      \* AudioRecorder.tsx:560
rnnoiseThreshold == 500  \* AudioRecorder.tsx:549

Slots == 1..MaxSockets
UpdateProcs == (MaxSockets + 1)..(MaxSockets + MaxUpdates)
Procs == Slots \cup UpdateProcs
TimerIds == 1..MaxTimers

FrameKinds == {"empty", "quiet", "loud"}
MessageKinds == {"transcription", "error", "connected", "unknown", "malformed"}

VARIABLES
    ws,                 \* this.ws: 0 = null, else the slot of the socket
    sock,               \* the connect() closures and their sockets
    cfg,                \* the running sendConfig() calls
    reconnectAttempts,  \* this.reconnectAttempts
    isReconnecting,     \* this.isReconnecting
    reconnectTimer,     \* this.reconnectTimer: 0 = null, else a timer handle
    timers,             \* the reconnect timers: pending delay per handle
    audioWait,          \* frames of sendAudioData calls in the 100 ms wait
    out,                \* what the last step emitted (callbacks, sends, ...)
    afterDisconnect,    \* disconnect() was the caller's last call
    discRun,            \* consecutive disconnect() steps, capped at 2
    exhausted           \* the reconnect-failed error was reported and the
                        \* caller has called neither connect nor disconnect since

vars == <<ws, sock, cfg, reconnectAttempts, isReconnecting, reconnectTimer,
          timers, audioWait, out, afterDisconnect, discRun, exhausted>>

\* The recorder component (AudioRecorder.tsx).  React state is named as in
\* the source; handler is the handleAudioProcess closure that startRecording
\* attached to the processor, with the state values of the render that
\* created it.
VARIABLES
    isRecording,            \* React state
    useRNNoise,             \* React state
    autoPauseAfterSilence,  \* React state
    silenceTimerActive,     \* React state
    rnnoiseWorkletAdded,    \* rnnoiseWorkletAddedRef.current
    handler,                \* processorRef.current.onaudioprocess
    silenceCounter,         \* silenceCounterRef.current
    silenceTimer,           \* silenceTimerRef.current: "null", or the state
                            \* ("pending", "fired") of the timer it names
    staleCountdowns,        \* pending countdowns that silenceTimerRef no
                            \* longer names
    recOut                  \* what the last recorder step emitted

recVars == <<isRecording, useRNNoise, autoPauseAfterSilence,
             silenceTimerActive, rnnoiseWorkletAdded, handler, silenceCounter,
             silenceTimer, staleCountdowns, recOut>>

\* The gate of handleAudioProcess applied to one frame, by itself.
VARIABLES
    gate                    \* the last evaluation: closure, frame, decision

\* The content of the config messages (websocket.ts), by itself.
VARIABLES
    wire                    \* this.config, the target language the caller
                            \* passed last, and the last message transmitted

otherVars == <<recVars, gate, wire>>

Min(a, b) == IF a < b THEN a ELSE b

\* ---- records --------------------------------------------------------------
FreeSock == [rs |-> "FREE", configSent |-> FALSE, timeout |-> FALSE,
             hs |-> "none", promise |-> "none", fromTimer |-> FALSE]

NewSock(ft) == [rs |-> "CONNECTING", configSent |-> FALSE, timeout |-> TRUE,
                hs |-> "none", promise |-> "pending", fromTimer |-> ft]

IdleCfg == [pc |-> "idle", attempt |-> 0, lsock |-> 0]

NoTimer == [delay |-> 0, cause |-> "none"]

\* nothing evaluated yet
NoGate == [useRNNoise |-> FALSE, level |-> "off",
           frame |-> [max |-> 0, rms |-> 0, ratio |-> 0], keep |-> TRUE]

\* no processor: no audio callback is delivered
NoHandler == [on |-> FALSE, useRNNoise |-> FALSE, level |-> "off",
              autoPause |-> FALSE, timerActive |-> FALSE, connected |-> FALSE]

\* ---- the socket -----------------------------------------------------------
IsOpen(w, sk) == w # 0 /\ sk[w].rs = "OPEN"

\* WebSocket.close(): a connecting or open socket starts closing, its close
\* event comes later; on a closing or closed socket the call does nothing.
CloseSock(r) ==
    IF r.rs \in {"CONNECTING", "OPEN"} THEN [r EXCEPT !.rs = "CLOSING"] ELSE r

CloseWs(w, sk) == IF w # 0 THEN [sk EXCEPT ![w] = CloseSock(@)] ELSE sk

\* A closure is dead when its socket is closed, its connect timeout is gone,
\* its onopen continuation is not running and this.ws no longer holds it.
Dead(w, sk, s) ==
    /\ sk[s].rs = "CLOSED"
    /\ ~sk[s].timeout
    /\ sk[s].hs \in {"none", "done"}
    /\ w # s

\* A field of a closure that no code will read again is put back to its
\* initial value: configSent is read by onclose only, and the caller of
\* connect() matters only to the rejection made by the connect timeout.
Settled(r) ==
    [r EXCEPT !.configSent = IF r.rs = "CLOSED" THEN FALSE ELSE @,
              !.fromTimer = IF r.timeout THEN @ ELSE FALSE]

\* Drops dead closures, and the message listeners of sockets that are no
\* longer open (a socket delivers no message once it left OPEN).
Normalize(w, sk, cf) ==
    [sock |-> [s \in Slots |-> IF sk[s].rs = "FREE" \/ Dead(w, sk, s)
                               THEN FreeSock ELSE Settled(sk[s])],
     cfg |-> [p \in Procs |->
                IF cf[p].lsock # 0 /\ sk[cf[p].lsock].rs # "OPEN"
                THEN [cf[p] EXCEPT !.lsock = 0] ELSE cf[p]]]

Commit(w, sk, cf) ==
    LET nz == Normalize(w, sk, cf)
    IN  ws' = w /\ sock' = nz.sock /\ cfg' = nz.cfg

\* ---- the connection state of the specification, read off the fields ----
State ==
    IF IsOpen(ws, sock)
    THEN IF sock[ws].hs = "done" THEN "Ready" ELSE "AwaitingConfigAck"
    ELSE IF ws # 0 /\ sock[ws].rs = "CONNECTING" THEN "Connecting"
    ELSE IF isReconnecting THEN "Reconnecting"
    ELSE IF reconnectAttempts >= maxReconnectAttempts THEN "Failed"
    ELSE "Disconnected"

PendingTimers == {t \in TimerIds : timers[t].delay > 0}

\* this.config as constructed (lines 19-22), and no message on the wire
DefaultConfig == [language |-> "zh", model |-> "tiny"]
NoMsg == [event |-> "none"]

Init ==
    /\ ws = 0
    /\ sock = [s \in Slots |-> FreeSock]
    /\ cfg = [p \in Procs |-> IdleCfg]
    /\ reconnectAttempts = 0
    /\ isReconnecting = FALSE
    /\ reconnectTimer = 0
    /\ timers = [t \in TimerIds |-> NoTimer]
    /\ audioWait = <<>>
    /\ out = {}
    /\ afterDisconnect = FALSE
    /\ discRun = 0
    /\ exhausted = FALSE
    /\ isRecording = FALSE
    /\ useRNNoise = TRUE
    /\ autoPauseAfterSilence = FALSE
    /\ silenceTimerActive = FALSE
    /\ rnnoiseWorkletAdded = FALSE
    /\ handler = NoHandler
    /\ silenceCounter = 0
    /\ silenceTimer = "null"
    /\ staleCountdowns = 0
    /\ recOut = {}
    /\ gate = NoGate
    /\ wire = [config |-> DefaultConfig, target |-> "en", msg |-> NoMsg]

\* ---- attemptReconnect (websocket.ts:155-194) ------------------------------
ReconnectFields ==
    [isReconnecting |-> isReconnecting, reconnectAttempts |-> reconnectAttempts,
     reconnectTimer |-> reconnectTimer, timers |-> timers, err |-> FALSE,
     armed |-> FALSE]

\* Delay growing by reconnectDelay per attempt instead of doubling.
DelayLinear(n) == Min(reconnectDelay * n, maxDelay)

\* delay = Math.min(reconnectDelay * 2^(attempts - 1), 30000)
Delay(n) == Min(reconnectDelay * 2^(n - 1), maxDelay)

\* clearTimeout(h): a pending timer is cancelled, a fired one is left alone
ClearTimer(tm, h) == IF h # 0 THEN [tm EXCEPT ![h] = NoTimer] ELSE tm

FreeTimer(tm) == CHOOSE t \in TimerIds :
                    /\ tm[t].delay = 0
                    /\ \A u \in TimerIds : tm[u].delay = 0 => t <= u

\* AttemptReconnect without the test of maxReconnectAttempts.
AttemptReconnectNoCap(r, cause) ==
    IF r.isReconnecting THEN r
    ELSE LET n == r.reconnectAttempts + 1
             cleared == ClearTimer(r.timers, r.reconnectTimer)
             t == FreeTimer(cleared)
         IN  [isReconnecting |-> TRUE,
              reconnectAttempts |-> n,
              reconnectTimer |-> t,
              timers |-> [cleared EXCEPT ![t] = [delay |-> Delay(n), cause |-> cause]],
              err |-> r.err,
              armed |-> TRUE]

\* AttemptReconnect with the counter advanced by two instead of one.
AttemptReconnectSkipsOne(r, cause) ==
    IF r.isReconnecting THEN r
    ELSE IF r.reconnectAttempts >= maxReconnectAttempts
    THEN [r EXCEPT !.err = TRUE]
    ELSE LET n == r.reconnectAttempts + 2
             cleared == ClearTimer(r.timers, r.reconnectTimer)
             t == FreeTimer(cleared)
         IN  [isReconnecting |-> TRUE,
              reconnectAttempts |-> n,
              reconnectTimer |-> t,
              timers |-> [cleared EXCEPT ![t] = [delay |-> Delay(n), cause |-> cause]],
              err |-> r.err,
              armed |-> TRUE]

\* cause only annotates the timer with what requested it; armed tells that
\* the call reached setTimeout (line 179)
AttemptReconnect(r, cause) ==
    IF r.isReconnecting THEN r
    ELSE IF r.reconnectAttempts >= maxReconnectAttempts
    THEN [r EXCEPT !.err = TRUE]
    ELSE LET n == r.reconnectAttempts + 1
             cleared == ClearTimer(r.timers, r.reconnectTimer)
             t == FreeTimer(cleared)
         IN  [isReconnecting |-> TRUE,
              reconnectAttempts |-> n,
              reconnectTimer |-> t,
              timers |-> [cleared EXCEPT ![t] = [delay |-> Delay(n), cause |-> cause]],
              err |-> r.err,
              armed |-> TRUE]

SetReconnect(r) ==
    /\ isReconnecting' = r.isReconnecting
    /\ reconnectAttempts' = r.reconnectAttempts
    /\ reconnectTimer' = r.reconnectTimer
    /\ timers' = r.timers

ErrOut(r) == IF r.err THEN {"onError:reconnectFailed"} ELSE {}

ArmedOut(r) == IF r.armed THEN {"timer:armed"} ELSE {}

\* ---- connect (websocket.ts:47-153) ----------------------------------------
\* The sockets after lines 53-57: the current one closed, this.ws = null.
Released == Normalize(0, CloseWs(ws, sock), cfg).sock

HasFreeSlot(sk) == \E s \in Slots : sk[s].rs = "FREE"

FreeSlot(sk) == CHOOSE s \in Slots :
                    /\ sk[s].rs = "FREE"
                    /\ \A u \in Slots : sk[u].rs = "FREE" => s <= u

\* Lines 53-91 once the isReconnecting guard has been passed: a new socket,
\* its closure and its 5 s connect timeout.
DoConnect(ft) ==
    LET k == FreeSlot(Released)
    IN  Commit(k, [Released EXCEPT ![k] = NewSock(ft)], cfg)

\* ---- sendConfig (websocket.ts:236-321) ------------------------------------
\* StartConfig with the first look at the socket left out: the call always
\* begins with a poll wait.
StartConfigPollFirst(p, cf) ==
    [cf EXCEPT ![p] = [pc |-> "poll", attempt |-> 0, lsock |-> 0]]

\* Entry of sendConfig for call p: waitForConnection returns at once when the
\* socket is open and the config message goes out with a listener on that
\* socket; otherwise the first 500 ms poll wait starts.
StartConfig(p, cf) ==
    IF IsOpen(ws, sock)
    THEN [cf EXCEPT ![p] = [pc |-> "ack", attempt |-> 1, lsock |-> ws]]
    ELSE [cf EXCEPT ![p] = [pc |-> "poll", attempt |-> 0, lsock |-> 0]]

StartOut == IF IsOpen(ws, sock) THEN {"tx:config"} ELSE {}

\* The acknowledgement timer of a send (lines 279-287): the last attempt
\* rejects, an earlier one resolves the wait.
AckTimeoutOutcome(attempt) ==
    IF attempt = configRetries THEN "reject" ELSE "resolve"

\* HandshakeDone with the resolve() of the try branch left out.
HandshakeDoneNoResolve(r, ok) ==
    [r EXCEPT !.hs = "done", !.promise = IF ok THEN @ ELSE "resolved",
              !.configSent = IF ok THEN TRUE ELSE @]

\* The onopen continuation after sendConfig returned (ok) or threw
\* (lines 104-113): resolve() in both branches, configSent only on return.
HandshakeDone(r, ok) ==
    [r EXCEPT !.hs = "done", !.promise = "resolved",
              !.configSent = IF ok THEN TRUE ELSE @]

\* sendConfig call p ends; a call made by a closure continues its onopen.
FinishSock(sk, p, ok) ==
    IF p \in Slots THEN [sk EXCEPT ![p] = HandshakeDone(@, ok)] ELSE sk

FinishOut(p) == IF p \in Slots THEN {"resolve"} ELSE {}

\* ---- disconnect (websocket.ts:375-388) ------------------------------------
\* Disconnect with the reset of reconnectAttempts left out.
DisconnectKeepsAttempts ==
    [isReconnecting |-> FALSE, reconnectAttempts |-> reconnectAttempts,
     reconnectTimer |-> 0, timers |-> ClearTimer(timers, reconnectTimer),
     err |-> FALSE, armed |-> FALSE]

Disconnect ==
    [isReconnecting |-> FALSE, reconnectAttempts |-> 0, reconnectTimer |-> 0,
     timers |-> ClearTimer(timers, reconnectTimer), err |-> FALSE,
     armed |-> FALSE]

\* ---- sendAudioData (websocket.ts:323-367) ---------------------------------
\* Lines 341-359, reached at once or after the backpressure wait: a frame
\* below the amplitude floor is skipped; this.ws.send throws on a null or
\* connecting socket, transmits on an open one and discards on a closing or
\* closed one.
Transmit(kind) ==
    IF kind = "quiet" THEN {"audio:skip"}
    ELSE IF ws = 0 \/ sock[ws].rs = "CONNECTING" THEN {"audio:throw"}
    ELSE IF sock[ws].rs = "OPEN" THEN {"tx:audio"}
    ELSE {"audio:discard"}

\* A call in the 100 ms backpressure wait (lines 336-339) holds its frame.
\* overtaken and stale record what happened while it waits: a frame handed
\* in later was transmitted, this.ws was replaced by a new socket.  Only the
\* transmission of the frame depends on them, so a frame below the amplitude
\* floor, which is never transmitted, keeps both FALSE.
Waiting(kind) == [kind |-> kind, overtaken |-> FALSE, stale |-> FALSE]

Overtake(q, sent) ==
    [i \in 1..Len(q) |->
        [q[i] EXCEPT !.overtaken = @ \/ (sent /\ q[i].kind = "loud")]]

Replaced(q) ==
    [i \in 1..Len(q) |-> [q[i] EXCEPT !.stale = (q[i].kind = "loud")]]

\* ---- caller calls ---------------------------------------------------------
Call(d) == afterDisconnect' = d /\ discRun' = 0 /\ UNCHANGED otherVars
Event == UNCHANGED afterDisconnect /\ discRun' = 0 /\ UNCHANGED otherVars
Reported(r) == exhausted' = (exhausted \/ r.err)

CallConnect ==
    /\ Call(FALSE)
    /\ exhausted' = FALSE
    /\ UNCHANGED <<reconnectAttempts, isReconnecting, reconnectTimer, timers>>
    /\ IF isReconnecting
       THEN UNCHANGED <<ws, sock, cfg, audioWait>> /\ out' = {"skip"}
       ELSE /\ HasFreeSlot(Released)
            /\ DoConnect(FALSE)
            /\ audioWait' = Replaced(audioWait)
            /\ out' = {}

CallDisconnect ==
    /\ afterDisconnect' = TRUE
    /\ discRun' = Min(discRun + 1, 2)
    /\ exhausted' = FALSE
    /\ SetReconnect(Disconnect)
    /\ Commit(0, CloseWs(ws, sock), cfg)
    /\ out' = {"call:disconnect"}
    /\ UNCHANGED audioWait
    /\ UNCHANGED otherVars

CallUpdateConfig ==
    /\ \E p \in UpdateProcs :
          /\ cfg[p].pc = "idle"
          /\ \A q \in UpdateProcs : cfg[q].pc = "idle" => p <= q
          /\ Commit(ws, sock, StartConfig(p, cfg))
    /\ out' = StartOut
    /\ Call(FALSE)
    /\ UNCHANGED <<reconnectAttempts, isReconnecting, reconnectTimer, timers, audioWait>>
    /\ UNCHANGED exhausted

\* The frames handed to sendAudioData: the byte length of the buffer and the
\* largest absolute sample (lines 329 and 342).
AudioFrames == {[bytes |-> 0, maxAbs |-> 0], [bytes |-> 2048, maxAbs |-> 99],
                [bytes |-> 2048, maxAbs |-> 100]}

\* FrameKind with the floor one sample value lower.
FrameKindLowFloor(f) ==
    IF f.bytes = 0 THEN "empty"
    ELSE IF f.maxAbs < amplitudeFloor - 1 THEN "quiet"
    ELSE "loud"

\* lines 329 and 344: what sendAudioData makes of a frame
FrameKind(f) ==
    IF f.bytes = 0 THEN "empty"
    ELSE IF f.maxAbs < amplitudeFloor THEN "quiet"
    ELSE "loud"

\* sendAudioData that returns quietly when the socket is not open.
SendAudioDataLenient(f, buffered) ==
    /\ LET kind == FrameKind(f)
       IN  IF ~IsOpen(ws, sock) \/ kind = "empty"
           THEN out' = {"audio:empty"} /\ UNCHANGED audioWait
           ELSE IF buffered
           THEN /\ Len(audioWait) < MaxAudioWait
                /\ audioWait' = Append(audioWait, Waiting(kind))
                /\ out' = {"audio:wait"}
           ELSE /\ out' = Transmit(kind)
                /\ audioWait' = Overtake(audioWait, "tx:audio" \in Transmit(kind))
    /\ Call(FALSE)
    /\ UNCHANGED <<ws, sock, cfg, reconnectAttempts, isReconnecting, reconnectTimer, timers>>
    /\ UNCHANGED exhausted

\* sendAudioData(audioData) (lines 322-367) up to its first await or return;
\* buffered: bufferedAmount is above 1 MB (line 335).
SendAudioData(f, buffered) ==
    /\ LET kind == FrameKind(f)
       IN  IF ~IsOpen(ws, sock)
           THEN out' = {"audio:throw"} /\ UNCHANGED audioWait
           ELSE IF kind = "empty"
           THEN out' = {"audio:empty"} /\ UNCHANGED audioWait
           ELSE IF buffered
           THEN /\ Len(audioWait) < MaxAudioWait
                /\ audioWait' = Append(audioWait, Waiting(kind))
                /\ out' = {"audio:wait"}
           ELSE /\ out' = Transmit(kind)
                /\ audioWait' = Overtake(audioWait, "tx:audio" \in Transmit(kind))
    /\ Call(FALSE)
    /\ UNCHANGED <<ws, sock, cfg, reconnectAttempts, isReconnecting, reconnectTimer, timers>>
    /\ UNCHANGED exhausted

CallSendAudio == \E f \in AudioFrames, buffered \in BOOLEAN : SendAudioData(f, buffered)

\* the 100 ms backpressure wait of the oldest waiting call is over
AudioResume ==
    /\ audioWait # <<>>
    /\ out' = Transmit(Head(audioWait).kind)
    /\ audioWait' = Tail(audioWait)
    /\ Event
    /\ UNCHANGED <<ws, sock, cfg, reconnectAttempts, isReconnecting, reconnectTimer, timers>>
    /\ UNCHANGED exhausted

\* ---- socket events --------------------------------------------------------
\* ws.onopen (lines 93-102) up to the 500 ms settle wait
SockOpen(s) ==
    /\ sock[s].rs = "CONNECTING"
    /\ Commit(ws, [sock EXCEPT ![s] = [@ EXCEPT !.rs = "OPEN", !.timeout = FALSE,
                                                !.hs = "settle"]], cfg)
    /\ reconnectAttempts' = 0
    /\ isReconnecting' = FALSE
    /\ out' = {"onOpen"}
    /\ Event
    /\ UNCHANGED <<reconnectTimer, timers, audioWait>>
    /\ UNCHANGED exhausted

\* What requested a reconnect from onclose, as an annotation of the timer.
CloseCause(s, clean) ==
    IF ~clean /\ ws = s /\ State = "Ready" THEN "readyUnclean" ELSE "close"

\* NeedsReconnect without the test of event.wasClean.
NeedsReconnectIfUnsent(configSent, clean) == ~configSent

\* The condition under which onclose calls attemptReconnect (line 128).
NeedsReconnect(configSent, clean) == ~configSent \/ ~clean

\* The close event of socket s and ws.onclose (lines 116-131).  A socket
\* that never opened cannot close cleanly.
SockClose(s, clean) ==
    /\ sock[s].rs \in {"CONNECTING", "OPEN", "CLOSING"}
    /\ clean => sock[s].hs # "none"
    /\ LET r == IF NeedsReconnect(sock[s].configSent, clean)
                THEN AttemptReconnect(ReconnectFields, CloseCause(s, clean))
                ELSE ReconnectFields
       IN  /\ SetReconnect(r)
           /\ Reported(r)
           /\ out' = {"onClose"} \cup ErrOut(r) \cup ArmedOut(r)
    /\ Commit(ws, [sock EXCEPT ![s] = [@ EXCEPT !.rs = "CLOSED"]], cfg)
    /\ Event
    /\ UNCHANGED audioWait

\* ws.onerror (lines 133-143): only the caller's onError
SockError(s) ==
    /\ sock[s].rs \in {"CONNECTING", "OPEN", "CLOSING"}
    /\ out' = {"onError:connection"}
    /\ Event
    /\ UNCHANGED <<ws, sock, cfg, reconnectAttempts, isReconnecting,
                   reconnectTimer, timers, audioWait>>
    /\ UNCHANGED exhausted

\* The connect timeout of closure s (lines 80-91); the rejection reaches the
\* catch of the reconnect timer when that timer made the call (189-192).
ConnectTimeout(s) ==
    /\ sock[s].timeout
    /\ IF IsOpen(ws, sock)
       THEN /\ Commit(ws, [sock EXCEPT ![s] = [@ EXCEPT !.timeout = FALSE]], cfg)
            /\ out' = {}
            /\ UNCHANGED <<reconnectAttempts, isReconnecting, reconnectTimer, timers,
                           exhausted>>
       ELSE LET r == AttemptReconnect(ReconnectFields, "timeout")
                closed == CloseWs(ws, sock)
            IN  /\ Commit(ws, [closed EXCEPT ![s] = [@ EXCEPT !.timeout = FALSE,
                                                             !.promise = "rejected"]], cfg)
                /\ SetReconnect(IF sock[s].fromTimer
                                THEN [r EXCEPT !.isReconnecting = FALSE] ELSE r)
                /\ Reported(r)
                /\ out' = {"reject"} \cup ErrOut(r) \cup ArmedOut(r)
    /\ Event
    /\ UNCHANGED audioWait

\* The 500 ms settle wait of onopen is over (line 102): sendConfig starts.
SettleElapsed(s) ==
    /\ sock[s].hs = "settle"
    /\ Commit(ws, [sock EXCEPT ![s] = [@ EXCEPT !.hs = "config"]], StartConfig(s, cfg))
    /\ out' = StartOut
    /\ Event
    /\ UNCHANGED <<reconnectAttempts, isReconnecting, reconnectTimer, timers, audioWait>>
    /\ UNCHANGED exhausted

\* A 500 ms wait of waitForConnection is over (lines 238-246).  The loop
\* makes waitMaxAttempts waits; as time is abstracted, so is the position in
\* the loop: the wait that ends is the last one (the call throws) or an
\* earlier one (the socket is looked at again, and the next wait starts when
\* it is not open).
PollElapsed(p) ==
    /\ cfg[p].pc = "poll"
    /\ \E lastWait \in BOOLEAN :
          IF lastWait
          THEN /\ Commit(ws, FinishSock(sock, p, FALSE), [cfg EXCEPT ![p] = IdleCfg])
               /\ out' = FinishOut(p)
          ELSE /\ IsOpen(ws, sock)
               /\ Commit(ws, sock, StartConfig(p, cfg))
               /\ out' = StartOut
    /\ Event
    /\ UNCHANGED <<reconnectAttempts, isReconnecting, reconnectTimer, timers, audioWait>>
    /\ UNCHANGED exhausted

\* The sendConfig calls whose listener hears a message of socket s.
Listening(s) == {p \in Procs : cfg[p].pc = "ack" /\ cfg[p].lsock = s}

\* config_updated / config_received arrives on socket s (lines 289-301 and
\* 225-226): every waiting listener of that socket resolves and returns.
RecvAck(s) ==
    /\ sock[s].rs = "OPEN"
    /\ Listening(s) # {}
    /\ Commit(ws,
              [k \in Slots |-> IF k \in Listening(s)
                               THEN HandshakeDone(sock[k], TRUE) ELSE sock[k]],
              [p \in Procs |-> IF p \in Listening(s) THEN IdleCfg ELSE cfg[p]])
    /\ out' = (IF Listening(s) \cap Slots # {} THEN {"resolve"} ELSE {})
    /\ Event
    /\ UNCHANGED <<reconnectAttempts, isReconnecting, reconnectTimer, timers, audioWait>>
    /\ UNCHANGED exhausted

\* The 5 s acknowledgement wait of call p is over (lines 279-287, 306-311).
AckTimeout(p) ==
    /\ cfg[p].pc = "ack"
    /\ Commit(ws,
              FinishSock(sock, p, AckTimeoutOutcome(cfg[p].attempt) = "resolve"),
              [cfg EXCEPT ![p] = IdleCfg])
    /\ out' = {"ackTimeout"} \cup FinishOut(p)
    /\ Event
    /\ UNCHANGED <<reconnectAttempts, isReconnecting, reconnectTimer, timers, audioWait>>
    /\ UNCHANGED exhausted

\* MessageOut with the error callback for what handleMessage cannot place.
MessageOutReportsUnknown(kind) ==
    IF kind = "transcription" THEN {"onTranscription"}
    ELSE IF kind \in {"error", "unknown", "malformed"} THEN {"onError:server"}
    ELSE {}

\* handleMessage (lines 196-234) for the other messages
MessageOut(kind) ==
    IF kind = "transcription" THEN {"onTranscription"}
    ELSE IF kind = "error" THEN {"onError:server"}
    ELSE {}

Receive(s, kind) ==
    /\ sock[s].rs = "OPEN"
    /\ out' = {"message"} \cup MessageOut(kind)
    /\ Event
    /\ UNCHANGED <<ws, sock, cfg, reconnectAttempts, isReconnecting,
                   reconnectTimer, timers, audioWait>>
    /\ UNCHANGED exhausted

RecvMessage(s) == \E kind \in MessageKinds : Receive(s, kind)

\* The reconnect timer t fires (lines 179-193) and calls connect().
ReconnectTimerFire(t) ==
    /\ timers[t].delay > 0
    /\ timers' = [timers EXCEPT ![t] = NoTimer]
    /\ IF isReconnecting
       THEN UNCHANGED <<ws, sock, cfg, audioWait>> /\ out' = {"skip"}
       ELSE /\ HasFreeSlot(Released)
            /\ DoConnect(TRUE)
            /\ audioWait' = Replaced(audioWait)
            /\ out' = {}
    /\ Event
    /\ UNCHANGED <<reconnectAttempts, isReconnecting, reconnectTimer>>
    /\ UNCHANGED exhausted

Next ==
    \/ CallConnect
    \/ CallDisconnect
    \/ CallUpdateConfig
    \/ CallSendAudio
    \/ AudioResume
    \/ \E s \in Slots : SockOpen(s)
    \/ \E s \in Slots, clean \in BOOLEAN : SockClose(s, clean)
    \/ \E s \in Slots : SockError(s)
    \/ \E s \in Slots : ConnectTimeout(s)
    \/ \E s \in Slots : SettleElapsed(s)
    \/ \E p \in Procs : PollElapsed(p)
    \/ \E s \in Slots : RecvAck(s)
    \/ \E p \in Procs : AckTimeout(p)
    \/ \E s \in Slots : RecvMessage(s)
    \/ \E t \in TimerIds : ReconnectTimerFire(t)

Spec == Init /\ [][Next]_vars

\* The steps the runtime takes by itself: a timer that was set fires, a
\* socket that connects opens or closes, a socket that is closing closes.
\* The caller's calls and the server's messages are not forced.
Scheduled ==
    /\ \A s \in Slots : WF_vars(ConnectTimeout(s))
    /\ \A s \in Slots : WF_vars(SettleElapsed(s))
    /\ \A p \in Procs : WF_vars(PollElapsed(p))
    /\ \A p \in Procs : WF_vars(AckTimeout(p))
    /\ \A t \in TimerIds : WF_vars(ReconnectTimerFire(t))
    /\ WF_vars(AudioResume)
    /\ \A s \in Slots :
          WF_vars(sock[s].rs \in {"CONNECTING", "CLOSING"}
                  /\ (SockOpen(s) \/ \E clean \in BOOLEAN : SockClose(s, clean)))

LiveSpec == Spec /\ Scheduled

\* ==== the recorder (src/components/AudioRecorder.tsx) ======================
\* The recorder is checked by itself: in RecSpec the service is left as Init
\* made it, a call into the service is recorded in recOut, and what the
\* component reads only when a step begins (isConnected set by the service's
\* callbacks, the selected audio source and noise filter level, the outcomes
\* of the browser calls) is an input of that step.
FilterLevels == {"off", "low", "medium", "high"}
AudioSources == {"microphone", "system", "both"}
MicOutcomes == {"ok", "fail"}
SystemOutcomes == {"ok", "denied", "unsupported", "noTrack"}

\* A frame as the statistics handleAudioProcess computes from it: the peak
\* and the RMS of the 16-bit samples and the voice-band share of the energy
\* in thousandths.  The values lie on both sides of every threshold.
PeakValues == {99, 500, 501, 1000, 1001, 2000, 2001, 3000, 3001}
RmsValues == {50, 300, 301, 500, 501, 800, 801}
RatioValues == {100, 150, 151, 250, 251}
GateFrames == {f \in [max : PeakValues, rms : RmsValues, ratio : RatioValues] :
                  f.rms <= f.max}

\* The frames of the recorder's runs: one that every gate but "off" drops,
\* one that only the level "low" and the worklet's gate keep, one that
\* every gate keeps.
RecFrames == {[max |-> 500, rms |-> 300, ratio |-> 100],
              [max |-> 1001, rms |-> 301, ratio |-> 100],
              [max |-> 3001, rms |-> 801, ratio |-> 251]}

\* lines 480-496
\* VolumeThreshold with the values of "low" and "medium" exchanged.
VolumeThresholdSwapped(level) ==
    IF level = "low" THEN 2000
    ELSE IF level = "medium" THEN 1000
    ELSE IF level = "high" THEN 3000
    ELSE 0

VolumeThreshold(level) ==
    IF level = "low" THEN 1000
    ELSE IF level = "medium" THEN 2000
    ELSE IF level = "high" THEN 3000
    ELSE 0

RmsThreshold(level) ==
    IF level = "low" THEN 300
    ELSE IF level = "medium" THEN 500
    ELSE IF level = "high" THEN 800
    ELSE 0

\* VoiceRatioThreshold with the cutoff of the level "high" at every level.
VoiceRatioThresholdStrict(level) == 250

\* line 531, in thousandths
VoiceRatioThreshold(level) == IF level = "high" THEN 250 ELSE 150

\* Heuristic with the rule of the other levels at the level "high" too.
HeuristicEither(level, f) ==
    LET loud == f.max > VolumeThreshold(level) \/ f.rms > RmsThreshold(level)
        voiced == f.ratio > VoiceRatioThreshold(level)
    IN  loud \/ voiced

\* lines 506-545: the decision of the heuristic branch
Heuristic(level, f) ==
    LET loud == f.max > VolumeThreshold(level) \/ f.rms > RmsThreshold(level)
        voiced == f.ratio > VoiceRatioThreshold(level)
    IN  IF level = "high" THEN loud /\ voiced ELSE loud \/ voiced

\* isLikelyVoice (lines 471-551) as closure h computes it for frame f
IsLikelyVoice(h, f) ==
    IF ~h.useRNNoise /\ h.level # "off" THEN Heuristic(h.level, f)
    ELSE IF h.useRNNoise THEN f.max > rnnoiseThreshold
    ELSE TRUE

\* The closure startRecording attaches (lines 361, 376, 384): it holds the
\* state of the render that made the call.  A value the closure never reads
\* is left at its default: the level under useRNNoise, silenceTimerActive
\* without autoPauseAfterSilence.
Captured(noiseFilterLevel) ==
    [on |-> TRUE,
     useRNNoise |-> useRNNoise,
     level |-> IF useRNNoise THEN "off" ELSE noiseFilterLevel,
     autoPause |-> autoPauseAfterSilence,
     timerActive |-> autoPauseAfterSilence /\ silenceTimerActive,
     connected |-> TRUE]

\* StreamOpens with a failure of the system audio always fatal.
StreamOpensStrict(source, mic, sys) ==
    LET wantMic == source \in {"microphone", "both"}
        wantSys == source \in {"system", "both"}
    IN  /\ wantMic => mic = "ok"
        /\ wantSys => sys = "ok"

\* lines 256-326: TRUE when a final stream is made
StreamOpens(source, mic, sys) ==
    LET wantMic == source \in {"microphone", "both"}
        wantSys == source \in {"system", "both"}
        microphoneStream == wantMic /\ mic = "ok"
        \* getDisplayMedia resolved: the variable is set even when the
        \* stream has no audio track (lines 278-303)
        systemAudioStream == wantSys /\ sys \in {"ok", "noTrack"}
    IN  /\ wantMic => mic = "ok"
        /\ (wantSys /\ sys # "ok") => microphoneStream
        /\ (microphoneStream /\ systemAudioStream) => sys = "ok"

\* What the acquisition of lines 256-326 reports: the outcome of each
\* request that was made (getDisplayMedia is not reached when getUserMedia
\* threw) and the tracks of the final stream.
SystemReport == [ok |-> "system:ok", denied |-> "system:denied",
                 unsupported |-> "system:unsupported", noTrack |-> "system:noTrack"]

StreamOut(source, mic, sys) ==
    LET wantMic == source \in {"microphone", "both"}
        wantSys == source \in {"system", "both"}
    IN  (IF wantMic THEN {IF mic = "ok" THEN "mic:ok" ELSE "mic:failed"} ELSE {})
        \cup (IF wantSys /\ (wantMic => mic = "ok") THEN {SystemReport[sys]} ELSE {})
        \cup (IF ~StreamOpens(source, mic, sys) THEN {}
              ELSE IF wantMic /\ wantSys /\ sys = "ok" THEN {"stream:both"}
              ELSE IF wantMic THEN {"stream:mic"}
              ELSE {"stream:system"})

RecStep == UNCHANGED vars /\ UNCHANGED <<gate, wire>>

\* stopRecording (lines 403-437)
StopRecording ==
    /\ handler' = NoHandler
    /\ isRecording' = FALSE

\* startRecording (lines 247-400), its awaits included.  addModule and the
\* worklet node are tried only under useRNNoise; the node cannot be made
\* when addModule failed in this call.
StartRecording(source, mic, sys, moduleOk, nodeOk, level) ==
    IF ~StreamOpens(source, mic, sys)
    THEN /\ recOut' = {"alert:audio", "recording:false"} \cup StreamOut(source, mic, sys)
         /\ isRecording' = FALSE
         /\ UNCHANGED <<useRNNoise, rnnoiseWorkletAdded, handler>>
    ELSE LET tried == useRNNoise /\ ~rnnoiseWorkletAdded
             node == useRNNoise /\ nodeOk /\ (tried => moduleOk)
         IN  /\ isRecording' = TRUE
             /\ handler' = Captured(level)
             /\ rnnoiseWorkletAdded' = (rnnoiseWorkletAdded \/ (tried /\ moduleOk))
             /\ useRNNoise' = (useRNNoise /\ node)
             /\ recOut' = {"recording:true"} \cup StreamOut(source, mic, sys)
                           \cup (IF node THEN {"rnnoise:on"} ELSE {})
                           \cup (IF useRNNoise /\ ~node THEN {"rnnoise:failed"} ELSE {})

\* toggleRecording (lines 213-224)
ToggleRecording ==
    /\ \E connected \in BOOLEAN :
          IF ~connected
          THEN /\ recOut' = {"alert:notConnected"}
               /\ UNCHANGED <<isRecording, useRNNoise, rnnoiseWorkletAdded, handler>>
          ELSE IF isRecording
          THEN /\ StopRecording
               /\ recOut' = {"recording:false"}
               /\ UNCHANGED <<useRNNoise, rnnoiseWorkletAdded>>
          ELSE \E source \in AudioSources, mic \in MicOutcomes, sys \in SystemOutcomes,
                  moduleOk \in BOOLEAN, nodeOk \in BOOLEAN, level \in FilterLevels :
                  StartRecording(source, mic, sys, moduleOk, nodeOk, level)
    /\ UNCHANGED <<autoPauseAfterSilence, silenceTimerActive,
                   silenceCounter, silenceTimer, staleCountdowns>>
    /\ RecStep

\* The silence accounting of one frame (lines 554-583) in closure h:
\* what it does to the counter, the countdown and silenceTimerActive.
Silence(h, voice) ==
    IF ~h.autoPause
    THEN [counter |-> silenceCounter, timer |-> silenceTimer,
          stale |-> staleCountdowns, active |-> silenceTimerActive, did |-> {}]
    ELSE IF ~voice
    THEN IF silenceCounter + 1 > silenceFrames /\ ~h.timerActive
         THEN [counter |-> silenceCounter + 1, timer |-> "pending",
               stale |-> staleCountdowns + (IF silenceTimer = "pending" THEN 1 ELSE 0),
               active |-> TRUE, did |-> {"countdown:armed"}]
         ELSE [counter |-> silenceCounter + 1, timer |-> silenceTimer,
               stale |-> staleCountdowns, active |-> silenceTimerActive, did |-> {}]
    ELSE IF silenceTimer # "null" /\ h.timerActive
    THEN [counter |-> 0, timer |-> "null", stale |-> staleCountdowns,
          active |-> FALSE, did |-> {"countdown:cleared"}]
    ELSE [counter |-> 0, timer |-> silenceTimer, stale |-> staleCountdowns,
          active |-> silenceTimerActive, did |-> {}]

\* Forward without the return of lines 586-589.
ForwardUngated(h, voice) ==
    IF ~h.connected THEN {"frame:kept", "skip:notConnected"}
    ELSE {"frame:kept", "call:sendAudioData"}

\* What the closure does with the frame after the accounting (lines 585-603)
Forward(h, voice) ==
    IF ~voice THEN {"frame:gated"}
    ELSE IF ~h.connected THEN {"frame:kept", "skip:notConnected"}
    ELSE {"frame:kept", "call:sendAudioData"}

\* handleAudioProcess (lines 440-607) for frame f
AudioProcess(f) ==
    /\ handler.on
    /\ LET voice == IsLikelyVoice(handler, f)
           r == Silence(handler, voice)
       IN  /\ r.counter <= MaxSilence
           /\ r.stale <= MaxStaleCountdowns
           /\ silenceCounter' = r.counter
           /\ silenceTimer' = r.timer
           /\ staleCountdowns' = r.stale
           /\ silenceTimerActive' = r.active
           /\ recOut' = Forward(handler, voice) \cup r.did
    /\ UNCHANGED <<isRecording, useRNNoise, autoPauseAfterSilence,
                   rnnoiseWorkletAdded, handler>>
    /\ RecStep

\* A countdown elapses (lines 565-569): stopRecording, setSilenceTimerActive.
\* named tells whether it is the timer silenceTimerRef names.
CountdownElapsed(named) ==
    /\ IF named
       THEN /\ silenceTimer = "pending"
            /\ silenceTimer' = "fired"
            /\ UNCHANGED staleCountdowns
       ELSE /\ staleCountdowns > 0
            /\ staleCountdowns' = staleCountdowns - 1
            /\ UNCHANGED silenceTimer
    /\ StopRecording
    /\ silenceTimerActive' = FALSE
    /\ recOut' = {"countdown:elapsed", "recording:false"}
    /\ UNCHANGED <<useRNNoise, autoPauseAfterSilence,
                   rnnoiseWorkletAdded, silenceCounter>>
    /\ RecStep

\* the controls of the component (lines 782, 822)
SetUseRNNoise(b) ==
    /\ useRNNoise' = b
    /\ recOut' = {}
    /\ UNCHANGED <<isRecording, autoPauseAfterSilence,
                   silenceTimerActive, rnnoiseWorkletAdded, handler, silenceCounter,
                   silenceTimer, staleCountdowns>>
    /\ RecStep

SetAutoPauseAfterSilence(b) ==
    /\ autoPauseAfterSilence' = b
    /\ recOut' = {}
    /\ UNCHANGED <<isRecording, useRNNoise,
                   silenceTimerActive, rnnoiseWorkletAdded, handler, silenceCounter,
                   silenceTimer, staleCountdowns>>
    /\ RecStep

RecNext ==
    \/ ToggleRecording
    \/ \E f \in RecFrames : AudioProcess(f)
    \/ \E named \in BOOLEAN : CountdownElapsed(named)
    \/ \E b \in BOOLEAN : SetUseRNNoise(b)
    \/ \E b \in BOOLEAN : SetAutoPauseAfterSilence(b)

RecSpec == Init /\ [][RecNext]_recVars

\* ---- the gate applied to one frame ---------------------------------------
Evaluate(rnnoise, level, f) ==
    /\ gate' = [useRNNoise |-> rnnoise, level |-> level, frame |-> f,
                keep |-> IsLikelyVoice([useRNNoise |-> rnnoise, level |-> level], f)]
    /\ UNCHANGED vars
    /\ UNCHANGED <<recVars, wire>>

GateNext == \E rnnoise \in BOOLEAN, level \in FilterLevels, f \in GateFrames :
               Evaluate(rnnoise, level, f)

GateSpec == Init /\ [][GateNext]_gate

\* ---- the content of the config messages ----------------------------------
Languages == {"zh", "en", "ja"}
Models == {"tiny", "base"}
TargetLanguages == {"en", "zh", "ja"}

\* The message sendConfig builds from this.config (lines 256-269); the
\* processing pause of 0.2 s is counted in tenths of a second.
ConfigMessage(c) ==
    [event |-> "config", language |-> c.language, model |-> c.model,
     noise_suppression |-> FALSE, enable_realtime_transcription |-> TRUE,
     use_main_model_for_realtime |-> TRUE, realtime_model_type |-> "tiny",
     realtime_processing_pause |-> 2, stabilization_window |-> 2,
     match_threshold |-> 10]

\* The message of the onopen handler of setupWebSocket (lines 420-426)
SetupMessage(language, model) ==
    [event |-> "config", language |-> language, model |-> model]

CfgStep == UNCHANGED vars /\ UNCHANGED <<recVars, gate>>

\* connect(options) (lines 66-67): an empty option keeps the field; the
\* targetLanguage option is not read.  Nothing is transmitted in the call.
ConnectOptions(language, model, target) ==
    /\ wire' = [config |-> [language |-> IF language # "" THEN language
                                          ELSE wire.config.language,
                             model |-> IF model # "" THEN model
                                       ELSE wire.config.model],
                target |-> target, msg |-> NoMsg]
    /\ CfgStep

\* updateConfig(language, model) (lines 369-373) as the recorder calls it,
\* with the target language as a third argument the method does not take;
\* sendConfig transmits at once when the socket is open.
UpdateConfig(language, model, target, open) ==
    /\ LET c == [language |-> language, model |-> model]
       IN  wire' = [config |-> c, target |-> target,
                    msg |-> IF open THEN ConfigMessage(c) ELSE NoMsg]
    /\ CfgStep

\* A send of sendConfig after a wait: the handshake on open, a send that
\* polled for the open socket, a retry (lines 256-275).
SendConfig ==
    /\ wire' = [wire EXCEPT !.msg = ConfigMessage(wire.config)]
    /\ CfgStep

\* ws.onopen of a socket made by setupWebSocket (lines 415-429)
SetupWebSocketOpen(language, model) ==
    /\ wire' = [wire EXCEPT !.msg = SetupMessage(language, model)]
    /\ CfgStep

CfgNext ==
    \/ \E language \in Languages \cup {""}, model \in Models \cup {""},
          target \in TargetLanguages : ConnectOptions(language, model, target)
    \/ \E language \in Languages, model \in Models, target \in TargetLanguages,
          open \in BOOLEAN : UpdateConfig(language, model, target, open)
    \/ SendConfig
    \/ \E language \in Languages, model \in Models :
          SetupWebSocketOpen(language, model)

CfgSpec == Init /\ [][CfgNext]_wire

\* ==== claims ===============================================================
Connecting(w, sk) == w # 0 /\ sk[w].rs = "CONNECTING"

InFlight == {p \in Procs : cfg[p].pc = "ack"}

Terminal ==
    /\ ws = 0
    /\ PendingTimers = {}
    /\ reconnectTimer = 0
    /\ ~isReconnecting
    /\ reconnectAttempts = 0

\* C1: when the reconnect timer that an unclean close of the Ready session
\* scheduled fires, a new transport is created and the session is Connecting.
C1_BackoffStartsConnection ==
    [][\A t \in TimerIds :
          (ReconnectTimerFire(t) /\ timers[t].cause = "readyUnclean")
              => (Connecting(ws', sock') /\ sock[ws'].rs = "FREE")]_vars

\* C2: as long as disconnect() is the caller's last call, no transport is
\* open or being opened, no reconnect timer is pending, isReconnecting is
\* false and the attempt counter is 0.
C2_DisconnectIsFinal ==
    afterDisconnect =>
        /\ ws = 0
        /\ \A s \in Slots : sock[s].rs \notin {"CONNECTING", "OPEN"}
        /\ PendingTimers = {}
        /\ ~isReconnecting
        /\ reconnectAttempts = 0

\* C3: an updateConfig call made while a config message waits for its
\* acknowledgement transmits no config message in that step, and no two
\* config messages are outstanding afterwards.
C3_OneHandshakeInFlight ==
    [][(CallUpdateConfig /\ InFlight # {})
          => ("tx:config" \notin out' /\ Cardinality(InFlight') <= 1)]_vars

\* C4: an audio frame is transmitted only when the session is Ready.
C4_AudioOnlyWhenReady ==
    [][("tx:audio" \in out') => State = "Ready"]_vars

\* C5: when the acknowledgement wait of a send other than the third ends
\* without acknowledgement, the sendConfig call goes on to send again.
C5_TimeoutRetries ==
    [][\A p \in Procs :
          (AckTimeout(p) /\ cfg[p].attempt < configRetries)
              => cfg'[p].pc # "idle"]_vars

\* C6: when the acknowledgement wait of the open transport's initial
\* handshake ends without acknowledgement, connect() resolves, the session is
\* Ready on the same open transport and no reconnect is requested.
C6_DegradedReady ==
    [][\A s \in Slots :
          (AckTimeout(s) /\ ws = s /\ IsOpen(ws, sock))
              => /\ sock'[s].promise = "resolved"
                 /\ ws' = s
                 /\ State' = "Ready"
                 /\ UNCHANGED <<isReconnecting, reconnectAttempts, reconnectTimer,
                                timers>>]_vars

C6_Witness ==
    /\ State = "Ready"
    /\ out = {"ackTimeout", "resolve"}
    /\ sock[ws].promise = "resolved"
    /\ PendingTimers = {}

\* C7: a reconnect request (from a close event or a connect timeout) made
\* while a reconnect timer is pending leaves the timers and the attempt
\* counter as they are.
C7_RequestWhilePendingIsNoOp ==
    [][(PendingTimers # {} /\ \E s \in Slots :
            \/ ConnectTimeout(s)
            \/ \E clean \in BOOLEAN : SockClose(s, clean))
          => UNCHANGED <<timers, reconnectAttempts>>]_vars

\* C8: every disconnect() leaves no transport, no reconnect timer,
\* isReconnecting false and the counter 0, and a disconnect() that directly
\* follows another one changes nothing.
C8_DisconnectIdempotent ==
    [][CallDisconnect
          => /\ Terminal'
             /\ discRun >= 1 =>
                  UNCHANGED <<ws, sock, cfg, reconnectAttempts, isReconnecting,
                              reconnectTimer, timers, audioWait>>]_vars

C8_Witness ==
    /\ discRun = 2
    /\ \E s \in Slots : sock[s].rs = "CLOSING"

\* C9: once the reconnect-failed error has been reported, no reconnect timer
\* opens a connection until the caller calls connect() again.
C9_ExhaustionIsTerminal ==
    [][(exhausted /\ \E t \in TimerIds : ReconnectTimerFire(t))
          => UNCHANGED <<ws, sock>>]_vars

\* C10: connect() called in Failed with no timer pending puts the attempt
\* counter back to 0 and starts a connection attempt.
C10_ConnectResetsPolicy ==
    [][(CallConnect /\ State = "Failed" /\ PendingTimers = {})
          => (reconnectAttempts' = 0 /\ Connecting(ws', sock'))]_vars

\* C11: a connect() call made while a reconnect timer is pending cancels the
\* timer and starts a new connection attempt itself.
C11_ConnectSupersedesBackoff ==
    [][(CallConnect /\ PendingTimers # {})
          => /\ PendingTimers' = {}
             /\ Connecting(ws', sock')
             /\ sock[ws'].rs = "FREE"]_vars

C13_FramesInCaptureOrder ==
    [][(AudioResume /\ "tx:audio" \in out') => ~Head(audioWait).overtaken]_vars

\* C14: a frame handed in before this.ws was replaced by a new socket is not
\* transmitted on the new socket.
C14_NoFrameAcrossReconnect ==
    [][(AudioResume /\ "tx:audio" \in out') => ~Head(audioWait).stale]_vars

\* C15: whenever the session is Ready the reconnect attempt counter is 0.
C15_ReadyMeansZeroAttempts ==
    State = "Ready" => reconnectAttempts = 0

\* C16: connect() from Disconnected leaves the session Connecting; the open
\* event of that transport leaves it AwaitingConfigAck; the end of the settle
\* delay sends the config and keeps it AwaitingConfigAck; the acknowledgement
\* heard by that handshake resolves connect() and leaves the session Ready.
C16_HappyPathSequence ==
    [][/\ (State = "Disconnected" /\ CallConnect) => State' = "Connecting"
       /\ \A s \in Slots :
             /\ (ws = s /\ State = "Connecting" /\ SockOpen(s))
                   => (ws' = s /\ State' = "AwaitingConfigAck")
             /\ (ws = s /\ State = "AwaitingConfigAck" /\ SettleElapsed(s))
                   => /\ ws' = s /\ State' = "AwaitingConfigAck"
                      /\ "tx:config" \in out'
                      /\ cfg'[s].pc = "ack" /\ cfg'[s].lsock = s
             /\ (ws = s /\ State = "AwaitingConfigAck" /\ s \in Listening(s)
                     /\ RecvAck(s))
                   => /\ ws' = s /\ State' = "Ready"
                      /\ sock'[s].promise = "resolved"
                      /\ sock'[s].configSent]_vars

C16_Witness ==
    /\ State = "Ready"
    /\ out = {"resolve"}
    /\ sock[ws].configSent
    /\ sock[ws].promise = "resolved"
    /\ \A s \in Slots \ {ws} : sock[s].rs = "FREE"
    /\ PendingTimers = {} /\ ~isReconnecting /\ reconnectAttempts = 0

\* C17: an unclean close of the Ready session's transport with the attempt
\* counter at 0 leaves the session Reconnecting with the counter at 1, and
\* arms one reconnect timer of 1000 ms, the only one pending.
C17_FirstReconnect ==
    [][\A s \in Slots :
          (ws = s /\ State = "Ready" /\ reconnectAttempts = 0 /\ SockClose(s, FALSE))
              => /\ State' = "Reconnecting"
                 /\ reconnectAttempts' = 1
                 /\ "timer:armed" \in out'
                 /\ PendingTimers' = {reconnectTimer'}
                 /\ timers'[reconnectTimer'].delay = 1000]_vars

C17_Witness ==
    /\ out = {"onClose", "timer:armed"}
    /\ State = "Reconnecting"
    /\ reconnectAttempts = 1
    /\ PendingTimers = {reconnectTimer}
    /\ timers[reconnectTimer] = [delay |-> 1000, cause |-> "readyUnclean"]

\* C18: when the connect timeout of a connect() call fires (its transport
\* has not opened), that transport is closed, connect() rejects and the
\* session is Reconnecting.
C18_ConnectTimeoutReconnects ==
    [][\A s \in Slots :
          ConnectTimeout(s)
              => /\ sock'[s].rs \notin {"CONNECTING", "OPEN"}
                 /\ "reject" \in out'
                 /\ State' = "Reconnecting"]_vars

\* C19: the attempt counter is always within 0..maxReconnectAttempts; every
\* step that arms a reconnect timer advances the counter by one, and the
\* counter goes down only in onopen or disconnect().  So no more than
\* maxReconnectAttempts timers are armed between two such steps.
C19_AttemptsBounded ==
    /\ [](reconnectAttempts \in 0..maxReconnectAttempts)
    /\ [][/\ ("timer:armed" \in out') => reconnectAttempts' = reconnectAttempts + 1
          /\ (reconnectAttempts' < reconnectAttempts)
                => (CallDisconnect \/ \E s \in Slots : SockOpen(s))]_vars

C19_Witness ==
    /\ reconnectAttempts = maxReconnectAttempts
    /\ "onError:reconnectFailed" \in out
    /\ "timer:armed" \notin out

\* The delays of attempts 1..5 as the specification gives them.
C20_Expected == <<1000, 2000, 4000, 8000, 16000>>

\* C20: the timer armed for attempt n (1..5) has the delay
\* min(1000 * 2^(n-1), 30000), and the delays do not decrease with n.
C20_BackoffDelays ==
    [][("timer:armed" \in out')
          => /\ reconnectAttempts' \in 1..maxReconnectAttempts
             /\ timers'[reconnectTimer'].delay = C20_Expected[reconnectAttempts']
             /\ \A n \in 1..reconnectAttempts' :
                   /\ C20_Expected[n] = Min(1000 * 2^(n - 1), 30000)
                   /\ C20_Expected[n] <= timers'[reconnectTimer'].delay]_vars

C20_Witness ==
    /\ "timer:armed" \in out
    /\ reconnectAttempts = maxReconnectAttempts
    /\ reconnectTimer # 0
    /\ timers[reconnectTimer].delay = 16000

\* C21: a frame that the gate of the running handler does not keep is not
\* handed to sendAudioData, and the step leaves the service untouched.
C21_GatedFrameNotSent ==
    [][\A f \in RecFrames :
          (~IsLikelyVoice(handler, f) /\ AudioProcess(f))
              => ("call:sendAudioData" \notin recOut' /\ UNCHANGED vars)]_recVars

C21_Witness ==
    /\ handler.on
    /\ ~handler.useRNNoise /\ handler.level = "high"
    /\ recOut = {"frame:gated"}

\* C22: with auto-stop enabled, the frame that brings the run of gated
\* frames to 50 leaves the 3 s countdown armed.
C22_CountdownArmsAt50 ==
    [][\A f \in RecFrames :
          (autoPauseAfterSilence /\ AudioProcess(f) /\ silenceCounter' = silenceFrames)
              => silenceTimer' = "pending"]_recVars

\* C23: with auto-stop enabled and the countdown armed, a kept frame leaves
\* no countdown pending and the silence counter at 0.
C23_KeptFrameCancelsCountdown ==
    [][\A f \in RecFrames :
          (/\ autoPauseAfterSilence
           /\ silenceTimer = "pending"
           /\ IsLikelyVoice(handler, f)
           /\ AudioProcess(f))
              => (silenceTimer' # "pending" /\ silenceCounter' = 0)]_recVars

\* C24: with auto-stop disabled, a processed frame leaves the silence
\* counter, the countdown and the recording as they are.
C24_InertWhenDisabled ==
    [][\A f \in RecFrames :
          (~autoPauseAfterSilence /\ AudioProcess(f))
              => UNCHANGED <<silenceCounter, silenceTimer, staleCountdowns,
                             silenceTimerActive, isRecording>>]_recVars

\* C25: without the worklet and at level "high" a kept frame has
\* (peak > 3000 or RMS > 800) and a voice share above 0.25; a frame with
\* RMS above 800 and a voice share below 0.25 is not kept.
C25_HighNeedsBoth ==
    (~gate.useRNNoise /\ gate.level = "high")
        => /\ gate.keep => ((gate.frame.max > 3000 \/ gate.frame.rms > 800)
                               /\ gate.frame.ratio > 250)
           /\ (gate.frame.rms > 800 /\ gate.frame.ratio < 250) => ~gate.keep

C25_Witness ==
    /\ ~gate.useRNNoise /\ gate.level = "high"
    /\ gate.frame.rms > 800 /\ gate.frame.ratio = 100
    /\ ~gate.keep

\* C26: without the worklet, every frame is kept at level "off"; at "low"
\* (1000 / 300) and "medium" (2000 / 500) a frame is kept exactly when its
\* peak or its RMS is above the level's threshold or its voice share is
\* above 0.15.
C26_OtherLevelsEither ==
    ~gate.useRNNoise
        => /\ gate.level = "off" => gate.keep
           /\ gate.level = "low"
                 => (gate.keep <=> (gate.frame.max > 1000
                                      \/ gate.frame.rms > 300
                                      \/ gate.frame.ratio > 150))
           /\ gate.level = "medium"
                 => (gate.keep <=> (gate.frame.max > 2000
                                      \/ gate.frame.rms > 500
                                      \/ gate.frame.ratio > 150))

C26_Witness ==
    /\ ~gate.useRNNoise /\ gate.level = "medium"
    /\ gate.frame.max <= 2000 /\ gate.frame.rms <= 500
    /\ gate.frame.ratio = 151
    /\ gate.keep

\* C27: when the noise suppression worklet cannot be set up as recording
\* starts, the handler that gates the frames of that recording applies the
\* level-based heuristic, not the worklet's gate.
C27_FallbackToHeuristic ==
    [][("rnnoise:failed" \in recOut') => (handler'.on /\ ~handler'.useRNNoise)]_recVars

\* C28: when the request for system audio is refused or unsupported, the
\* recording starts on the microphone stream alone if the microphone stream
\* was acquired, and the start fails if there is none.
C28_SystemAudioFallback ==
    [][("system:denied" \in recOut' \/ "system:unsupported" \in recOut')
          => IF "mic:ok" \in recOut'
             THEN /\ isRecording' /\ handler'.on
                  /\ "stream:mic" \in recOut'
                  /\ "alert:audio" \notin recOut'
             ELSE ~isRecording' /\ ~handler'.on /\ "alert:audio" \in recOut']_recVars

C28_Witness ==
    /\ isRecording /\ handler.on
    /\ {"mic:ok", "system:denied", "stream:mic", "recording:true"} \subseteq recOut

\* C29: every config message on the wire has all the fields of the session
\* configuration, with the language and the model of this.config and the
\* target language of the session.
SessionConfigFields ==
    {"language", "model", "target_language", "noise_suppression",
     "realtime_model_type", "stabilization_window", "match_threshold",
     "realtime_processing_pause"}

C29_FullSnapshot ==
    wire.msg.event = "config"
        => /\ SessionConfigFields \subseteq DOMAIN wire.msg
           /\ wire.msg.language = wire.config.language
           /\ wire.msg.model = wire.config.model
           /\ wire.msg.target_language = wire.target

\* C30: a message with an unknown discriminant, or one that does not parse,
\* calls no callback and changes neither the sockets, the handshakes in
\* progress, nor the reconnect counters and timers; the socket stays open
\* for the messages that follow.
C30_UnknownMessageDropped ==
    [][\A s \in Slots, kind \in {"unknown", "malformed"} :
          (sock[s].rs = "OPEN" /\ Receive(s, kind))
              => /\ out' = {"message"}
                 /\ UNCHANGED <<ws, sock, cfg, reconnectAttempts, isReconnecting,
                                reconnectTimer, timers, exhausted>>
                 /\ sock'[s].rs = "OPEN"]_vars

C30_Witness ==
    /\ out = {"message"}
    /\ ws # 0 /\ sock[ws].rs = "OPEN"
    /\ \E p \in Procs : cfg[p].pc = "ack" /\ cfg[p].lsock = ws

\* C31: a sendAudioData call made while this.ws is null or its socket is not
\* open throws, transmits nothing and changes no field of the service.
C31_SendFailsFastWhenNotOpen ==
    [][\A f \in AudioFrames, buffered \in BOOLEAN :
          (~IsOpen(ws, sock) /\ SendAudioData(f, buffered))
              => /\ out' = {"audio:throw"}
                 /\ UNCHANGED <<ws, sock, cfg, reconnectAttempts, isReconnecting,
                                reconnectTimer, timers, audioWait, exhausted>>]_vars

C31_Witness ==
    /\ out = {"audio:throw"}
    /\ ws = 0 /\ reconnectTimer # 0 /\ reconnectAttempts > 0
    /\ audioWait = <<>>

\* C32 as stated: a sendAudioData call with an empty frame, or one whose
\* largest absolute sample is below 100, transmits nothing and returns
\* without an error.
C32_QuietCallReturnsQuietly ==
    [][\A f \in AudioFrames, buffered \in BOOLEAN :
          ((f.bytes = 0 \/ f.maxAbs < 100) /\ SendAudioData(f, buffered))
              => ("tx:audio" \notin out' /\ "audio:throw" \notin out')]_vars

\* C32 amended: such a frame is never transmitted, at the call or after the
\* wait for the buffer; the call returns without an error when the socket is
\* open at the call, and throws as every call does when it is not.
C32_QuietFrameNotSent ==
    [][/\ \A f \in AudioFrames, buffered \in BOOLEAN :
            ((f.bytes = 0 \/ f.maxAbs < 100) /\ SendAudioData(f, buffered))
                => /\ "tx:audio" \notin out'
                   /\ IsOpen(ws, sock) => "audio:throw" \notin out'
                   /\ ~IsOpen(ws, sock) => out' = {"audio:throw"}
       /\ (audioWait # <<>> /\ AudioResume)
              => (Head(audioWait).kind # "loud" => out' = {"audio:skip"})]_vars

C32_Witness ==
    /\ out = {"audio:skip"}
    /\ IsOpen(ws, sock)
    /\ audioWait # <<>>

\* C33: a reconnect timer that fires while the current socket is open leaves
\* that socket in place and open.
C33_TimerSparesOpenSocket ==
    [][\A t \in DOMAIN timers :
          (timers[t].delay > 0 /\ IsOpen(ws, sock) /\ ReconnectTimerFire(t))
              => (ws' = ws /\ sock'[ws].rs = "OPEN")]_vars

\* C34: while isReconnecting is true, a reconnect timer is pending or a
\* socket is still connecting.
C34_ReconnectingHasPending ==
    isReconnecting
        => \/ \E t \in TimerIds : timers[t].delay > 0
           \/ \E s \in Slots : sock[s].rs = "CONNECTING"

\* C35: the close event of a socket that is no longer this.ws calls no
\* onClose and leaves the reconnect flag, counter and timers as they are.
C35_StaleCloseIsSilent ==
    [][\A s \in Slots, clean \in BOOLEAN :
          (s # ws /\ SockClose(s, clean))
              => /\ "onClose" \notin out'
                 /\ UNCHANGED <<isReconnecting, reconnectAttempts, reconnectTimer,
                                timers>>]_vars

\* C36: the connect timeout of a socket that is no longer this.ws closes no
\* other socket, and requests no reconnect, when it fires.
C36_TimeoutActsOnOwnSocket ==
    [][\A s \in Slots :
          (sock[s].timeout /\ ws # s /\ ws # 0 /\ ConnectTimeout(s))
              => /\ sock'[ws].rs = sock[ws].rs
                 /\ UNCHANGED <<isReconnecting, reconnectAttempts, reconnectTimer,
                                timers>>]_vars

\* The promise of the connect() call in slot s was resolved or rejected: it
\* is settled now, or the step that released the closure settled a promise.
SettledOrReleasedSettling(s) ==
    \/ sock[s].promise \in {"resolved", "rejected"}
    \/ sock[s].promise = "none" /\ out \cap {"resolve", "reject"} # {}

\* C37: the promise of every connect() call is resolved or rejected in the
\* end.
C37_PromiseSettles ==
    \A s \in Slots : (sock[s].promise = "pending") ~> SettledOrReleasedSettling(s)

\* C38: while no recording is active, no silence countdown is pending and
\* the silence run length is 0, so that no countdown of an earlier recording
\* can stop the next one.
C38_StopClearsCountdown ==
    ~isRecording
        => /\ silenceTimer # "pending"
           /\ staleCountdowns = 0
           /\ silenceCounter = 0

\* C39: at most one silence countdown is pending: the one silenceTimerRef
\* names, and none that it no longer names.
C39_OneCountdownPending ==
    (IF silenceTimer = "pending" THEN 1 ELSE 0) + staleCountdowns <= 1

\* The filter levels from the most permissive to the strictest.
LevelRank == [off |-> 0, low |-> 1, medium |-> 2, high |-> 3]

\* C40: without the worklet, a frame kept at one filter level is kept at
\* every lower level: high implies medium, medium implies low, low implies
\* off.
C40_MonotoneInLevel ==
    (~gate.useRNNoise /\ gate.keep)
        => \A l \in FilterLevels :
              LevelRank[l] < LevelRank[gate.level]
                  => IsLikelyVoice([useRNNoise |-> FALSE, level |-> l], gate.frame)

C40_Witness ==
    /\ ~gate.useRNNoise /\ gate.level = "high" /\ gate.keep
    /\ gate.frame.max = 3001 /\ gate.frame.rms <= 300 /\ gate.frame.ratio = 251

====
